---- MODULE Spec2Model ----
(***************************************************************************)
(* A model of mingdaoai/deep-research.                                     *)
(*                                                                         *)
(* Part 1: ContentDownloader.download_content (src/src/downloader.py), the *)
(* oracle-guided crawl loop, with _download_and_extract_links inlined as   *)
(* the per-link steps of one batch.                                        *)
(* Part 2: the content cache of the downloader, one link at a time.        *)
(* Part 3: main() (src/main.py) and ResearchOrchestrator                   *)
(* (src/src/research_orchestrator.py) with the snapshot files and the      *)
(* browser.                                                                *)
(* Part 4: LLMClientManager.create_chat_completion (src/src/llm_client.py).*)
(* Part 5: download_content again, for seed lists long enough to fill a    *)
(* batch of more than ten links.                                           *)
(* Part 6: the merge of the links of one batch that share a URL, and the   *)
(* parent context of the links extracted from the merged link's page.      *)
(* Each part has its own specification and holds the others' state still.  *)
(*                                                                         *)
(* Strings that the code concatenates or searches (snippets, parent        *)
(* contexts) are sequences of one-character strings; URLs, which the code  *)
(* only compares, are TLA+ strings.  Python's None is the value None.      *)
(***************************************************************************)
EXTENDS Integers, Sequences, FiniteSets, TLC

\* ------------------------------------------------------------------ bounds
MaxSeeds == 3
MaxBudget == 3
MaxResp == 2
MaxExtract == 1

\* ------------------------------------------------------------- the inputs
Urls == {"a", "b", "c"}

None == <<"None">>
SnipA == <<"A">>
SnipB == <<"B">>
SnipQ == <<"Q">>
SnipX == <<"X">>
\* the separator " | " of the merge and of the context chain
Sep == <<" ", "|", " ">>

BoundedSeq(S, n) == UNION {[1..k -> S] : k \in 0..n}

DownloadLink(u, p, s) == [url |-> u, parent_snippet |-> p, snippet |-> s]

\* the seed links a caller may pass: two search results for URL "a" (found by
\* two queries, with different snippets) and one each for "b" and "c"
SeedPool ==
    {DownloadLink("a", None, SnipA), DownloadLink("a", SnipQ, SnipB),
     DownloadLink("b", None, SnipA), DownloadLink("c", SnipQ, SnipB)}

\* the seed lists: up to MaxSeeds different links of the pool, in any order
SeedLists ==
    {s \in BoundedSeq(SeedPool, MaxSeeds) :
        \A i, j \in 1..Len(s) : i # j => s[i] # s[j]}

\* One entry of a parsed oracle response (json.loads): a JSON integer (below,
\* within and above the range of indices), the JSON boolean true (Python's
\* True, which is the int 1) or a JSON string.
Entry ==
    [kind : {"int"}, val : -1..MaxSeeds]
        \cup [kind : {"bool"}, val : {1}]
        \cup [kind : {"str"}, val : {0}]

\* What create_chat_completion returned, as json.loads sees it.
Response ==
    [kind : {"list"}, entries : BoundedSeq(Entry, MaxResp)]
        \cup [kind : {"notjson", "notlist"}, entries : {<<>>}]

NoResponse == [kind |-> "none", entries |-> <<>>]

\* ------------------------------------------------------ python strings
\* bool(s) of an Optional[str]
Truthy(s) == s # None /\ s # <<>>

\* s in t, for strings
IsSubstr(s, t) ==
    \E i \in 0..(Len(t) - Len(s)) : SubSeq(t, i + 1, i + Len(s)) = s

\* ------------------------------------------------------------ the merge
\* a merge that joins without the substring test
MergeFieldJoin(existing, new) ==
    LET m0 == IF Truthy(existing) THEN existing ELSE <<>>
    IN  IF Truthy(new)
        THEN (IF m0 # <<>> THEN m0 \o Sep ELSE m0) \o new
        ELSE m0

MergeField(existing, new) ==
    LET m0 == IF Truthy(existing) THEN existing ELSE <<>>
    IN  IF Truthy(new) /\ ~IsSubstr(new, m0)
        THEN (IF m0 # <<>> THEN m0 \o Sep ELSE m0) \o new
        ELSE m0

MergeLinks(existing_link, link) ==
    DownloadLink(link.url,
                 MergeField(existing_link.parent_snippet, link.parent_snippet),
                 MergeField(existing_link.snippet, link.snippet))

IndexOfUrl(links, u) == CHOOSE i \in 1..Len(links) : links[i].url = u

HasUrl(links, u) == \E i \in 1..Len(links) : links[i].url = u

\* url_to_links after one more link of the batch; a dict keeps the position
\* of the first insertion of a key
DedupStep(acc, link) ==
    IF HasUrl(acc, link.url)
    THEN [acc EXCEPT ![IndexOfUrl(acc, link.url)] = MergeLinks(@, link)]
    ELSE Append(acc, link)

RECURSIVE DedupFrom(_, _)
DedupFrom(acc, links) ==
    IF links = <<>> THEN acc
    ELSE DedupFrom(DedupStep(acc, Head(links)), Tail(links))

\* url_to_links.values() of a batch
DedupLinks(links) == DedupFrom(<<>>, links)

\* ------------------------------------------------------- link extraction
ParentContext(parent_link) ==
    (IF Truthy(parent_link.parent_snippet)
     THEN parent_link.parent_snippet \o Sep ELSE <<>>)
        \o (IF Truthy(parent_link.snippet) THEN parent_link.snippet ELSE <<>>)

\* the links _extract_urls_from_text returns for a page that names new_urls
ExtractLinks(new_urls, parent_link) ==
    [i \in 1..Len(new_urls) |->
        DownloadLink(new_urls[i], ParentContext(parent_link), SnipX)]

\* ------------------------------------------------------------ the seen set
\* a seen set that is never added to
SeenAddNever(seen, u) == seen

\* seen_urls.add(u)
SeenAdd(seen, u) == seen \cup {u}

RECURSIVE AddUnique(_, _, _)
\* the loop that adds the unseen extracted links: <<extracted_links, seen_urls>>
AddUnique(new_links, extracted, seen) ==
    IF new_links = <<>> THEN <<extracted, seen>>
    ELSE IF Head(new_links).url \notin seen
         THEN AddUnique(Tail(new_links), Append(extracted, Head(new_links)),
                        SeenAdd(seen, Head(new_links).url))
         ELSE AddUnique(Tail(new_links), extracted, seen)

\* a candidate list that keeps the seen links
AvailableAll(all_links, seen) == all_links

RECURSIVE Available(_, _)
\* available_links: the known links whose URL is not seen, in their order
Available(all_links, seen) ==
    IF all_links = <<>> THEN <<>>
    ELSE (IF Head(all_links).url \notin seen THEN <<Head(all_links)>> ELSE <<>>)
            \o Available(Tail(all_links), seen)

\* ------------------------------------------------------- the oracle's answer
\* isinstance(i, int): bool is a subclass of int in Python
PyIsInt(e) == e.kind \in {"int", "bool"}

\* the value an entry has as an index (True is 1)
PyIndex(e) == e.val

RECURSIVE ValidIndices(_, _)
\* [i for i in relevant_indices if isinstance(i, int) and 0 <= i < n]
ValidIndices(entries, n) ==
    IF entries = <<>> THEN <<>>
    ELSE (IF PyIsInt(Head(entries)) /\ 0 <= PyIndex(Head(entries))
                /\ PyIndex(Head(entries)) < n
          THEN <<PyIndex(Head(entries))>> ELSE <<>>)
            \o ValidIndices(Tail(entries), n)

\* a parse step that lets every response through
ParseErrorNone(resp) == "none"

\* what json.loads and the isinstance(list) check make of the response text
ParseError(resp) ==
    IF resp.kind = "notjson" THEN "AssertionError"
    ELSE IF resp.kind = "notlist" THEN "ValueError"
    ELSE "none"

\* [available_links[i] for i in relevant_indices] (Python indexes from 0)
BatchLinks(avail, indices) == [k \in 1..Len(indices) |-> avail[indices[k] + 1]]

\* ------------------------------------------------------------------ state
VARIABLES
    download_links,       \* the seed list passed to download_content
    max_relevant_links,   \* the budget passed to download_content
    pc,                   \* "loop" | "batch" | "returned" | "raised"
    error,                \* the exception download_content raised, or "none"
    seen_urls,            \* seen_urls (shared with the batch function)
    all_available_links,  \* all_available_links
    downloaded_count,     \* downloaded_count
    results,              \* all_content['results']
    available_links,      \* available_links of the current round
    response,             \* the oracle's response of the current round
    relevant_indices,     \* relevant_indices after validation
    url_to_links,         \* url_to_links.values() of the current batch
    bi,                   \* position of the batch's for loop in url_to_links
    batch_results,        \* downloaded_content['results'] of the batch
    extracted_links,      \* extracted_links of the batch
    successful_downloads, \* successful_downloads of the batch
    fetch_log,            \* history: every fetch attempted, with its outcome
    oracle_calls,         \* history: number of create_chat_completion calls
    always_all            \* history: every round so far selected all candidates

crawlVars ==
    <<download_links, max_relevant_links, pc, error, seen_urls,
      all_available_links, downloaded_count, results, available_links,
      response, relevant_indices, url_to_links, bi, batch_results,
      extracted_links, successful_downloads, fetch_log, oracle_calls,
      always_all>>

\* the content cache of the downloader (Part 2)
VARIABLES
    now,                  \* the wall clock, in hours
    cache,                \* cache_dir: url -> the cache file, or NoEntry
    link_result           \* history: how the last link was handled

cacheVars == <<now, cache, link_result>>

\* main() and ResearchOrchestrator (Part 3)
VARIABLES
    opc,                  \* where main() and run() stand
    browser,              \* "none" | "live" | "released"
    disk,                 \* the snapshot files of plan/, search/, results/
    plan,                 \* plan: its remaining search_queries
    iteration,            \* iteration
    all_search_results,   \* the links of the searches so far, in order
    orch_error,           \* the exception that ended the process, or "none"
    stages,               \* history: the stages started, in order
    planned,              \* history: the number of queries create_plan gave
    written,              \* history: what save_json_file stored in this run
    cleanup_log           \* history: the files os.remove removed, or failed on

orchVars ==
    <<opc, browser, disk, plan, iteration, all_search_results, orch_error,
      stages, planned, written, cleanup_log>>

\* LLMClientManager.create_chat_completion (Part 4)
VARIABLES
    lpc,                  \* "idle" | "attempting" | "returned" | "raised"
    llm_prompt,           \* system_prompt + user_prompt of the call
    attempt,              \* attempt
    llm_result,           \* the response returned, or the error raised
    llm_cache,            \* cache_dir: prompt -> the cache file, or NoEntry
    api_calls,            \* history: API calls made by the call so far
    delays                \* history: the time.sleep()s of the call so far

llmVars ==
    <<lpc, llm_prompt, attempt, llm_result, llm_cache, api_calls, delays>>

\* the state the parts of the program share: each part holds the others' still
restVars == <<cacheVars, orchVars, llmVars>>

vars == <<crawlVars, restVars>>

inputVars == <<download_links, max_relevant_links>>
loopVars ==
    <<seen_urls, all_available_links, downloaded_count, results>>
roundVars == <<available_links, response, relevant_indices>>
batchVars ==
    <<url_to_links, bi, batch_results, extracted_links, successful_downloads>>

\* --------------------------------------------------- the content cache
\* the clock stops here
MaxClock == 26

\* timedelta(days=1), in hours
CacheTTL == 24

CacheUrls == {"a", "b"}
Contents == {"v1", "v2"}

\* a cache file that json.load cannot parse (a write that failed half way)
Corrupt == "corrupt"

\* what _get_cached_content returns for a miss, and its raising
NoContent == "None"
ReadRaises == "raise"

\* no cache file for the URL
NoEntry == [mtime |-> -1, content |-> "absent"]

CacheEntry(t, content) == [mtime |-> t, content |-> content]

\* a freshness test under which no entry ever goes stale
FreshAlways(age) == TRUE

\* datetime.now() - cache_time < timedelta(days=1)
Fresh(age) == age < CacheTTL

\* _get_cached_content: the file is opened and parsed only if it exists and
\* is fresh; nothing is written or removed
GetCachedContent(c, url, t) ==
    IF c[url] # NoEntry /\ Fresh(t - c[url].mtime)
    THEN IF c[url].content = Corrupt THEN ReadRaises ELSE c[url].content
    ELSE NoContent

\* a cache write that stores nothing
CacheContentLost(c, url, content, t) == c

\* _cache_content: open(cache_file, 'w') and json.dump
CacheContent(c, url, content, t) ==
    [c EXCEPT ![url] = CacheEntry(t, content)]

NoLinkResult ==
    [url |-> "", success |-> FALSE, source |-> "none", content |-> NoContent,
     error |-> "none", fetched |-> FALSE]

LinkResult(url, success, source, content, err, fetched) ==
    [url |-> url, success |-> success, source |-> source,
     content |-> content, error |-> err, fetched |-> fetched]

CacheIdle ==
    /\ now = 0
    /\ cache = [u \in CacheUrls |-> NoEntry]
    /\ link_result = NoLinkResult

\* ------------------------------------------------------ the orchestrator
\* the longest plan
MaxQueries == 2

\* the suffix of a file such as search_plan_final.json, for which int() raises
NotANumber == 0 - 1

Dirs == {"plan", "search", "results"}

\* a snapshot file <directory>/<name>_<suffix>.json
Files == Dirs \X ((1..(MaxQueries + 2)) \cup {NotANumber})

Absent == [run |-> "none", data |-> <<>>]

\* a file an earlier run left
Stale == [run |-> "old", data |-> <<>>]

\* a file whose json.dump did not finish
Truncated == [run |-> "cut", data |-> <<>>]

\* what save_json_file stores in this run
Snapshot(data) == [run |-> "cur", data |-> data]

\* the files earlier runs may have left in the working directory
StalePool ==
    {<<"plan", MaxQueries + 2>>, <<"plan", NotANumber>>, <<"search", 2>>,
     <<"results", 1>>, <<"results", MaxQueries + 2>>}

InitialDisks ==
    {[f \in Files |-> IF f \in old THEN Stale ELSE Absent] :
        old \in SUBSET StalePool}

NoFiles == [f \in Files |-> Absent]

\* a save that numbers every file 1
SaveJsonFileAsFirst(d, dir, it, data) ==
    [d EXCEPT ![<<dir, 1>>] = Snapshot(data)]

\* save_json_file(data, directory, filename, iteration)
SaveJsonFile(d, dir, it, data) == [d EXCEPT ![<<dir, it>>] = Snapshot(data)]

\* save_json_file raises: before the file is opened, or in json.dump
SaveFails(d, dir, it, left) ==
    IF left = "truncated" THEN [d EXCEPT ![<<dir, it>>] = Truncated] ELSE d

\* create_plan returns a plan of n queries, n >= 1
PlanOf(n) == [i \in 1..n |-> i]

\* a reader of the plan that never finds a query left
GetRemainingQueriesNone(p) == <<>>

\* _get_remaining_queries(plan)
GetRemainingQueries(p) == p

\* a test of the cleanup that also takes the final iteration's files
AfterOrAtFinal(file_iteration, final) == file_iteration >= final

\* "file_iteration > iteration" of _cleanup_old_files
AfterFinal(file_iteration, final) == file_iteration > final

\* the files _cleanup_old_files(final) calls os.remove for
Doomed(d, final) ==
    {f \in Files : /\ d[f] # Absent
                   /\ f[2] # NotANumber
                   /\ AfterFinal(f[2], final)}

\* a handler of errors that goes on with the summary
OnErrorGoOn(err) == "summarizing"

\* "except Exception as e: ... raise" of run()
OnError(err) == "raised"

\* the call self.summarizer.summarize() and the parameters, after self, of
\* Summarizer.summarize(self, research_topic)
SummarizeArgs == <<>>
SummarizeParams == <<"research_topic">>

\* Python binds a call only if every parameter without default gets a value
Binds(args, params) == Len(args) = Len(params)

\* the outcome of self.summarizer.summarize(): "none" for a normal return
SummarizeOutcome(ok) ==
    IF ~Binds(SummarizeArgs, SummarizeParams) THEN "TypeError"
    ELSE IF ok THEN "none" ELSE "SummarizerError"

NoCleanup == [removed |-> {}, failed |-> {}]

OrchIdle ==
    /\ opc = "main"
    /\ browser = "none"
    /\ disk = NoFiles
    /\ plan = <<>>
    /\ iteration = 0
    /\ all_search_results = <<>>
    /\ orch_error = "none"
    /\ stages = <<>>
    /\ planned = 0
    /\ written = NoFiles
    /\ cleanup_log = NoCleanup

\* --------------------------------------------------------- the LLM client
\* max_retries and retry_delay (seconds)
MaxRetries == 3
RetryDelay == 3

\* "cache_age < 86400", in hours
LLMCacheTTL == 24

Prompts == {"p1", "p2"}

\* A response is a sequence of tokens: the tags and the fence of
\* _clean_response, blanks, words (\w+) and other text.
Open == "<think>"
Close == "</think>"
\* the fence of three backquotes
Fence == "fence"
IsSpace(tok) == tok = " "
IsWord(tok) == tok \in {"json", "x"}

\* what the API streams: a bare answer, and an answer after a think block
\* in a json fence
Responses ==
    {<<"[1]">>,
     <<Open, "x", Close, " ", Fence, "json", " ", "[0]", " ", Fence>>}

Least(S) == CHOOSE x \in S : \A y \in S : x <= y

\* the first substitution: every shortest run from an opening think tag to
\* a closing one is removed
RECURSIVE RemoveThink(_)
RemoveThink(r) ==
    LET opens == {i \in 1..Len(r) : r[i] = Open} IN
    IF opens = {} THEN r
    ELSE LET i == Least(opens)
             closes == {j \in (i + 1)..Len(r) : r[j] = Close}
         IN  IF closes = {} THEN r
             ELSE SubSeq(r, 1, i - 1)
                      \o RemoveThink(SubSeq(r, Least(closes) + 1, Len(r)))

\* r[q..] is blanks and then a fence
BlanksThenFence(r, q) ==
    \E m \in q..Len(r) :
        r[m] = Fence /\ \A k \in q..(m - 1) : IsSpace(r[k])

\* the search for a json block: the text between the first fence followed
\* by json and the next fence, blanks trimmed, or the response where there
\* is no such block
JsonBlock(r) ==
    LET starts == {i \in 1..(Len(r) - 1) : r[i] = Fence /\ r[i + 1] = "json"}
    IN  IF starts = {} THEN r
        ELSE LET i == Least(starts)
                 text == {k \in (i + 2)..Len(r) : ~IsSpace(r[k])}
                 p == IF text = {} THEN Len(r) + 1 ELSE Least(text)
                 ends == {q \in p..Len(r) : BlanksThenFence(r, q)}
             IN  IF ends = {} THEN r ELSE SubSeq(r, p, Least(ends) - 1)

\* the second substitution: a fence with the word and blanks after it, or
\* with the blanks before it, is removed
RECURSIVE StripMarkers(_)
StripMarkers(r) ==
    IF r = <<>> THEN <<>>
    ELSE IF r[1] = Fence
    THEN LET rest == {k \in 2..Len(r) : ~IsWord(r[k])}
             w == IF rest = {} THEN Len(r) + 1 ELSE Least(rest)
             text == {k \in w..Len(r) : ~IsSpace(r[k])}
             b == IF text = {} THEN Len(r) + 1 ELSE Least(text)
         IN  StripMarkers(SubSeq(r, b, Len(r)))
    ELSE IF BlanksThenFence(r, 1)
    THEN LET m == Least({k \in 1..Len(r) : r[k] = Fence})
         IN  StripMarkers(SubSeq(r, m + 1, Len(r)))
    ELSE <<r[1]>> \o StripMarkers(Tail(r))

\* response.strip()
RECURSIVE Strip(_)
Strip(r) ==
    IF r = <<>> THEN <<>>
    ELSE IF IsSpace(r[1]) THEN Strip(Tail(r))
    ELSE IF IsSpace(r[Len(r)]) THEN Strip(SubSeq(r, 1, Len(r) - 1))
    ELSE r

\* _clean_response
CleanResponse(text) == Strip(StripMarkers(JsonBlock(RemoveThink(text))))

\* what the caller gets when the call raises, and before the call ends
NoResult == <<"none">>
APIError == <<"APIError">>
OtherException == <<"OtherError">>

\* no cache file for the prompt
NoCacheFile == [mtime |-> 0 - 1, content |-> <<>>]

\* a test of the cache file's age that no file passes
LLMFreshNever(age) == FALSE

LLMFresh(age) == age < LLMCacheTTL

\* the text of the prompt's cache file if it exists and is fresh, else None
CachedResponse(c, prompt, t) ==
    IF c[prompt] # NoCacheFile /\ LLMFresh(t - c[prompt].mtime)
    THEN c[prompt].content
    ELSE None

\* "if attempt < max_retries:" after "attempt += 1"
RetryAgain(n) == n < MaxRetries

LLMIdle ==
    /\ lpc = "idle"
    /\ llm_prompt = "none"
    /\ attempt = 0
    /\ llm_result = NoResult
    /\ llm_cache = [p \in Prompts |-> NoCacheFile]
    /\ api_calls = 0
    /\ delays = <<>>

RestIdle == CacheIdle /\ OrchIdle /\ LLMIdle

\* a CrawlResult of a successful and of a failed fetch
SuccessResult(link, new_links) ==
    [url |-> link.url, success |-> TRUE,
     parent_snippet |-> link.parent_snippet, snippet |-> link.snippet,
     extracted_urls |-> [i \in 1..Len(new_links) |-> new_links[i].url],
     error |-> "none"]

FailureResult(link) ==
    [url |-> link.url, success |-> FALSE,
     parent_snippet |-> link.parent_snippet, snippet |-> link.snippet,
     extracted_urls |-> <<>>, error |-> "FetchError"]

Init ==
    /\ download_links \in SeedLists
    /\ max_relevant_links \in 1..MaxBudget
    /\ pc = "loop"
    /\ error = "none"
    /\ seen_urls = {}
    /\ all_available_links = download_links
    /\ downloaded_count = 0
    /\ results = <<>>
    /\ available_links = <<>>
    /\ response = NoResponse
    /\ relevant_indices = <<>>
    /\ url_to_links = <<>>
    /\ bi = 0
    /\ batch_results = <<>>
    /\ extracted_links = <<>>
    /\ successful_downloads = 0
    /\ fetch_log = <<>>
    /\ oracle_calls = 0
    /\ always_all = TRUE
    /\ RestIdle

\* ----------------------------------------------------- download_content
\* a budget test that stops one result early
BudgetLeftOffByOne(count, max) == count + 1 < max

\* downloaded_count < max_relevant_links
BudgetLeft(count, max) == count < max

\* the while condition and the "if not available_links: break" under it
LoopContinues ==
    /\ BudgetLeft(downloaded_count, max_relevant_links)
    /\ all_available_links # <<>>
    /\ Available(all_available_links, seen_urls) # <<>>

\* the loop ends by its condition or by the break on no available link
Return ==
    /\ pc = "loop"
    /\ ~LoopContinues
    /\ pc' = "returned"
    /\ UNCHANGED <<restVars, inputVars, error, loopVars, roundVars, batchVars,
                   fetch_log, oracle_calls, always_all>>

\* create_chat_completion raises (its retries are used up, or another error)
OracleRaises ==
    /\ pc = "loop"
    /\ LoopContinues
    /\ pc' = "raised"
    /\ error' = "OracleError"
    /\ available_links' = Available(all_available_links, seen_urls)
    /\ oracle_calls' = oracle_calls + 1
    /\ UNCHANGED <<restVars, inputVars, loopVars, response, relevant_indices, batchVars,
                   fetch_log, always_all>>

\* the response is not JSON (assert False) or not a list (ValueError)
OracleUnparsable ==
    /\ pc = "loop"
    /\ LoopContinues
    /\ \E resp \in Response :
        /\ ParseError(resp) # "none"
        /\ response' = resp
        /\ error' = ParseError(resp)
    /\ pc' = "raised"
    /\ available_links' = Available(all_available_links, seen_urls)
    /\ oracle_calls' = oracle_calls + 1
    /\ UNCHANGED <<restVars, inputVars, loopVars, relevant_indices, batchVars,
                   fetch_log, always_all>>

\* no entry of the response is a usable index: break
OracleNoIndices ==
    /\ pc = "loop"
    /\ LoopContinues
    /\ LET avail == Available(all_available_links, seen_urls) IN
       \E resp \in Response :
        /\ ParseError(resp) = "none"
        /\ ValidIndices(resp.entries, Len(avail)) = <<>>
        /\ response' = resp
        /\ available_links' = avail
    /\ relevant_indices' = <<>>
    /\ pc' = "returned"
    /\ oracle_calls' = oracle_calls + 1
    /\ always_all' = FALSE
    /\ UNCHANGED <<restVars, inputVars, error, loopVars, batchVars, fetch_log>>

\* the oracle selects a batch; _download_and_extract_links starts on it
OracleSelects ==
    /\ pc = "loop"
    /\ LoopContinues
    /\ LET avail == Available(all_available_links, seen_urls) IN
       \E resp \in Response :
        LET idx == ValidIndices(resp.entries, Len(avail)) IN
        /\ ParseError(resp) = "none"
        /\ idx # <<>>
        /\ response' = resp
        /\ available_links' = avail
        /\ relevant_indices' = idx
        /\ url_to_links' = DedupLinks(BatchLinks(avail, idx))
        /\ always_all' =
            (always_all /\ {idx[k] : k \in 1..Len(idx)} = 0..(Len(avail) - 1))
    /\ bi' = 1
    /\ batch_results' = <<>>
    /\ extracted_links' = <<>>
    /\ successful_downloads' = 0
    /\ pc' = "batch"
    /\ oracle_calls' = oracle_calls + 1
    /\ UNCHANGED <<restVars, inputVars, error, loopVars, fetch_log>>

\* ---------------------------------------- _download_and_extract_links
InBatch == pc = "batch" /\ bi <= Len(url_to_links)

\* "if not url or url in seen_urls: continue"
Skipped(link) == link.url = "" \/ link.url \in seen_urls

SkipLink ==
    /\ InBatch
    /\ Skipped(url_to_links[bi])
    /\ bi' = bi + 1
    /\ UNCHANGED <<restVars, inputVars, pc, error, loopVars, roundVars, url_to_links,
                   batch_results, extracted_links, successful_downloads,
                   fetch_log, oracle_calls, always_all>>

\* the cache read, the fetch or the extraction raises: the except branch
FetchFails ==
    /\ InBatch
    /\ LET link == url_to_links[bi] IN
        /\ ~Skipped(link)
        /\ seen_urls' = SeenAdd(seen_urls, link.url)
        /\ batch_results' = Append(batch_results, FailureResult(link))
        /\ fetch_log' = Append(fetch_log, [url |-> link.url, ok |-> FALSE])
    /\ bi' = bi + 1
    /\ UNCHANGED <<restVars, inputVars, pc, error, all_available_links, downloaded_count,
                   results, roundVars, url_to_links, extracted_links,
                   successful_downloads, oracle_calls, always_all>>

\* content is obtained (from the cache or the network) and names new_urls
FetchSucceeds ==
    /\ InBatch
    /\ LET link == url_to_links[bi] IN
       \E new_urls \in BoundedSeq(Urls, MaxExtract) :
        LET new_links == ExtractLinks(new_urls, link)
            added == AddUnique(new_links, extracted_links,
                               SeenAdd(seen_urls, link.url))
        IN  /\ ~Skipped(link)
            /\ extracted_links' = added[1]
            /\ seen_urls' = added[2]
            /\ batch_results' =
                Append(batch_results, SuccessResult(link, new_links))
            /\ fetch_log' = Append(fetch_log, [url |-> link.url, ok |-> TRUE])
    /\ successful_downloads' = successful_downloads + 1
    /\ bi' = bi + 1
    /\ UNCHANGED <<restVars, inputVars, pc, error, all_available_links, downloaded_count,
                   results, roundVars, url_to_links, oracle_calls, always_all>>

BatchOver == pc = "batch" /\ bi > Len(url_to_links)

\* a batch function that never raises
NoSuccessfulNever(successes, n) == FALSE

\* (successful_downloads == 0) and (len(url_to_links) > 0)
NoSuccessful(successes, n) == successes = 0 /\ n > 0

\* raise Exception("No successful downloads"), re-raised by download_content
BatchRaises ==
    /\ BatchOver
    /\ NoSuccessful(successful_downloads, Len(url_to_links))
    /\ pc' = "raised"
    /\ error' = "NoSuccess"
    /\ UNCHANGED <<restVars, inputVars, loopVars, roundVars, batchVars, fetch_log,
                   oracle_calls, always_all>>

RECURSIVE AddResultUrls(_, _)
\* for result in batch_content['results']: seen_urls.add(result['url'])
AddResultUrls(rs, seen) ==
    IF rs = <<>> THEN seen
    ELSE AddResultUrls(Tail(rs), SeenAdd(seen, Head(rs).url))

\* downloaded_count += len(batch_content['results'])
CountAfterBatch(count, rs) == count + Len(rs)

\* The batch returns; download_content updates its tracking.  The locals of
\* the batch function are gone, and the round's locals (available_links,
\* response, relevant_indices) are not read again before the next round
\* assigns them: they are cleared here.
BatchReturns ==
    /\ BatchOver
    /\ ~NoSuccessful(successful_downloads, Len(url_to_links))
    /\ results' = results \o batch_results
    /\ downloaded_count' = CountAfterBatch(downloaded_count, batch_results)
    /\ all_available_links' = all_available_links \o extracted_links
    /\ seen_urls' = AddResultUrls(batch_results, seen_urls)
    /\ url_to_links' = <<>>
    /\ bi' = 0
    /\ batch_results' = <<>>
    /\ extracted_links' = <<>>
    /\ successful_downloads' = 0
    /\ available_links' = <<>>
    /\ response' = NoResponse
    /\ relevant_indices' = <<>>
    /\ pc' = "loop"
    /\ UNCHANGED <<restVars, inputVars, error, fetch_log, oracle_calls, always_all>>

Next ==
    \/ Return
    \/ OracleRaises
    \/ OracleUnparsable
    \/ OracleNoIndices
    \/ OracleSelects
    \/ SkipLink
    \/ FetchFails
    \/ FetchSucceeds
    \/ BatchRaises
    \/ BatchReturns

Spec == Init /\ [][Next]_vars

\* every oracle call and every fetch returns, and the loop is not preempted
FairSpec == Spec /\ WF_vars(Next)

Terminated == pc \in {"returned", "raised"}

\* all_content['extracted_links']: one dict per link of all_available_links
ExtractedLinksOf(links) ==
    [i \in 1..Len(links) |->
        [url |-> links[i].url, parent_snippet |-> links[i].parent_snippet,
         snippet |-> links[i].snippet]]

\* the value download_content returns
AllContent ==
    [results |-> results,
     extracted_links |-> ExtractedLinksOf(all_available_links)]

\* ------------------------------------------ Part 2: the content cache
\* One link of a batch, seen from the cache: lines 164-170 and 197-205 of
\* _download_and_extract_links with _get_cached_content and _cache_content.
\* The links of all runs that share the cache directory pass through here.
CrawlIdle ==
    /\ download_links = <<>>
    /\ max_relevant_links = 1
    /\ pc = "returned"
    /\ error = "none"
    /\ seen_urls = {}
    /\ all_available_links = <<>>
    /\ downloaded_count = 0
    /\ results = <<>>
    /\ available_links = <<>>
    /\ response = NoResponse
    /\ relevant_indices = <<>>
    /\ url_to_links = <<>>
    /\ bi = 0
    /\ batch_results = <<>>
    /\ extracted_links = <<>>
    /\ successful_downloads = 0
    /\ fetch_log = <<>>
    /\ oracle_calls = 0
    /\ always_all = TRUE

cacheFrame == <<crawlVars, orchVars, llmVars>>

CacheInit == CrawlIdle /\ CacheIdle /\ OrchIdle /\ LLMIdle

\* time passes; nothing sweeps the cache
Tick ==
    /\ now < MaxClock
    /\ now' = now + 1
    /\ UNCHANGED <<cacheFrame, cache, link_result>>

\* "content = self._get_cached_content(url)" returns a fresh entry: no fetch
LinkFromCache ==
    \E url \in CacheUrls :
        LET content == GetCachedContent(cache, url, now) IN
        /\ content \notin {NoContent, ReadRaises}
        /\ link_result' =
               LinkResult(url, TRUE, "cache", content, "none", FALSE)
        /\ UNCHANGED <<cacheFrame, now, cache>>

\* json.load raises on the fresh entry: the link's except branch
LinkCacheReadRaises ==
    \E url \in CacheUrls :
        /\ GetCachedContent(cache, url, now) = ReadRaises
        /\ link_result' =
               LinkResult(url, FALSE, "none", NoContent, "CacheReadError",
                          FALSE)
        /\ UNCHANGED <<cacheFrame, now, cache>>

\* a miss, and _fetch_and_process_url raises: the link's except branch
LinkFetchRaises ==
    \E url \in CacheUrls :
        /\ GetCachedContent(cache, url, now) = NoContent
        /\ link_result' =
               LinkResult(url, FALSE, "none", NoContent, "FetchError", TRUE)
        /\ UNCHANGED <<cacheFrame, now, cache>>

\* a miss, the fetch returns content and _cache_content stores it
LinkFetched ==
    \E url \in CacheUrls, content \in Contents :
        /\ GetCachedContent(cache, url, now) = NoContent
        /\ cache' = CacheContent(cache, url, content, now)
        /\ link_result' =
               LinkResult(url, TRUE, "network", content, "none", TRUE)
        /\ UNCHANGED <<cacheFrame, now>>

\* a miss, the fetch returns content and _cache_content raises: the link's
\* except branch.  open(..., 'w') has failed (the file is as before) or the
\* dump has failed after it (the file is truncated)
LinkCacheWriteRaises ==
    \E url \in CacheUrls, left \in {"as before", "truncated"} :
        /\ GetCachedContent(cache, url, now) = NoContent
        /\ cache' = IF left = "truncated"
                    THEN CacheContent(cache, url, Corrupt, now)
                    ELSE cache
        /\ link_result' =
               LinkResult(url, FALSE, "none", NoContent, "CacheWriteError",
                          TRUE)
        /\ UNCHANGED <<cacheFrame, now>>

CacheNext ==
    \/ Tick
    \/ LinkFromCache
    \/ LinkCacheReadRaises
    \/ LinkFetchRaises
    \/ LinkFetched
    \/ LinkCacheWriteRaises

CacheSpec == CacheInit /\ [][CacheNext]_vars

\* ------------------------------ Part 3: main() and ResearchOrchestrator
\* main() of src/main.py with ResearchOrchestrator.__init__ and run() of
\* src/src/research_orchestrator.py.  The planner, the search engine, the
\* crawl, the indexer and the browser are the environment: each call
\* returns or raises.
OrchInit ==
    /\ CrawlIdle
    /\ CacheIdle
    /\ LLMIdle
    /\ opc = "main"
    /\ browser = "none"
    /\ disk \in InitialDisks
    /\ plan = <<>>
    /\ iteration = 0
    /\ all_search_results = <<>>
    /\ orch_error = "none"
    /\ stages = <<>>
    /\ planned = 0
    /\ written = NoFiles
    /\ cleanup_log = NoCleanup

orchFrame == <<crawlVars, cacheVars, llmVars>>

\* validate_working_dir(args.working_dir) returns
Validate ==
    /\ opc = "main"
    /\ opc' = "construct"
    /\ UNCHANGED <<orchFrame, browser, disk, plan, iteration,
                   all_search_results, orch_error, stages, planned, written,
                   cleanup_log>>

\* validate_working_dir raises ValueError; main() logs it and exits with 1
ValidateRaises ==
    /\ opc = "main"
    /\ opc' = "exit1"
    /\ orch_error' = "ValueError"
    /\ UNCHANGED <<orchFrame, browser, disk, plan, iteration,
                   all_search_results, stages, planned, written, cleanup_log>>

\* ResearchOrchestrator(working_dir): the browser, then the five components
Construct ==
    /\ opc = "construct"
    /\ browser' = "live"
    /\ opc' = "topic"
    /\ UNCHANGED <<orchFrame, disk, plan, iteration, all_search_results,
                   orch_error, stages, planned, written, cleanup_log>>

\* BrowserManager.initialize() raises: no driver is left, main() exits with 1
BrowserInitRaises ==
    /\ opc = "construct"
    /\ opc' = "exit1"
    /\ orch_error' = "BrowserError"
    /\ UNCHANGED <<orchFrame, browser, disk, plan, iteration,
                   all_search_results, stages, planned, written, cleanup_log>>

\* the constructor of a component raises after BrowserManager.initialize();
\* run() and its finally are never entered, main() exits with 1
ComponentInitRaises ==
    /\ opc = "construct"
    /\ browser' = "live"
    /\ opc' = "exit1"
    /\ orch_error' = "ComponentError"
    /\ UNCHANGED <<orchFrame, disk, plan, iteration, all_search_results,
                   stages, planned, written, cleanup_log>>

\* research_topic = self._read_research_topic(); iteration = 1
ReadTopic ==
    /\ opc = "topic"
    /\ iteration' = 1
    /\ opc' = "planning"
    /\ UNCHANGED <<orchFrame, browser, disk, plan, all_search_results,
                   orch_error, stages, planned, written, cleanup_log>>

\* a topic error that is logged and the run goes on to the plan
ReadTopicErrorIgnored ==
    /\ opc = "topic"
    /\ iteration' = 1
    /\ opc' = "planning"
    /\ orch_error' = "ValueError"
    /\ UNCHANGED <<orchFrame, browser, disk, plan, all_search_results,
                   stages, planned, written, cleanup_log>>

\* _read_research_topic raises ValueError: research.md is missing or cannot
\* be read
ReadTopicRaises ==
    /\ opc = "topic"
    /\ opc' = OnError("ValueError")
    /\ orch_error' = "ValueError"
    /\ UNCHANGED <<orchFrame, browser, disk, plan, iteration,
                   all_search_results, stages, planned, written, cleanup_log>>

\* plan = self.planner.create_plan(research_topic), saved as search_plan_1
Plan ==
    /\ opc = "planning"
    /\ \E n \in 1..MaxQueries :
        /\ plan' = PlanOf(n)
        /\ planned' = n
        /\ disk' = SaveJsonFile(disk, "plan", iteration, PlanOf(n))
        /\ written' = SaveJsonFile(written, "plan", iteration, PlanOf(n))
    /\ stages' = Append(stages, "plan")
    /\ opc' = "searching"
    /\ UNCHANGED <<orchFrame, browser, iteration, all_search_results,
                   orch_error, cleanup_log>>

\* create_plan raises, or it returns and save_json_file raises
PlanRaises ==
    /\ opc = "planning"
    /\ \E err \in {"PlannerError", "SaveError"},
          left \in {"as before", "truncated"} :
        /\ err = "PlannerError" => left = "as before"
        /\ disk' = SaveFails(disk, "plan", iteration, left)
        /\ opc' = OnError(err)
        /\ orch_error' = err
    /\ stages' = Append(stages, "plan")
    /\ UNCHANGED <<orchFrame, browser, plan, iteration, all_search_results,
                   planned, written, cleanup_log>>

\* a search that finds nothing
SearchResultsNone(query, found) == <<>>

\* the DownloadLinks that execute_searches(query) returns: the j-th link of
\* the query, for j = 1..found
SearchResults(query, found) == [j \in 1..found |-> <<query, j>>]

\* one round of the while loop: the first remaining query is searched, its
\* results are saved as search_results_<iteration>, the query leaves the plan,
\* iteration grows and the plan is saved as search_plan_<iteration>
SearchStep ==
    /\ opc = "searching"
    /\ GetRemainingQueries(plan) # <<>>
    /\ \E found \in 0..1 :
        LET queries == GetRemainingQueries(plan)
            saved == SaveJsonFile(disk, "search", iteration,
                                  <<Head(queries), found>>)
            logged == SaveJsonFile(written, "search", iteration,
                                   <<Head(queries), found>>)
        IN  /\ all_search_results' =
                   all_search_results \o SearchResults(Head(queries), found)
            /\ plan' = Tail(queries)
            /\ iteration' = iteration + 1
            /\ disk' = SaveJsonFile(saved, "plan", iteration + 1,
                                    Tail(queries))
            /\ written' = SaveJsonFile(logged, "plan", iteration + 1,
                                       Tail(queries))
    /\ stages' = Append(stages, "search")
    /\ UNCHANGED <<orchFrame, opc, browser, orch_error, planned,
                   cleanup_log>>

\* a round raises: in execute_searches (or the DownloadLink test), in the
\* save of the search results, or in the save of the plan
SearchRaises ==
    /\ opc = "searching"
    /\ GetRemainingQueries(plan) # <<>>
    /\ \E point \in {"search", "save results", "save plan"},
          left \in {"as before", "truncated"}, found \in 0..1 :
        LET queries == GetRemainingQueries(plan)
            data == <<Head(queries), found>>
        IN  /\ point = "search" => left = "as before" /\ found = 0
            /\ orch_error' =
                   IF point = "search" THEN "SearchError" ELSE "SaveError"
            /\ opc' = OnError(orch_error')
            /\ all_search_results' =
                   all_search_results \o SearchResults(Head(queries), found)
            /\ IF point = "save plan"
               THEN /\ plan' = Tail(queries)
                    /\ iteration' = iteration + 1
                    /\ disk' = SaveFails(
                           SaveJsonFile(disk, "search", iteration, data),
                           "plan", iteration + 1, left)
                    /\ written' =
                           SaveJsonFile(written, "search", iteration, data)
               ELSE /\ disk' = SaveFails(disk, "search", iteration, left)
                    /\ UNCHANGED <<plan, iteration, written>>
    /\ stages' = Append(stages, "search")
    /\ UNCHANGED <<orchFrame, browser, planned, cleanup_log>>

\* no query is left and there are search results: download_content returns
\* and is saved as downloaded_content_<iteration - 1>
Download ==
    /\ opc = "searching"
    /\ GetRemainingQueries(plan) = <<>>
    /\ all_search_results # <<>>
    /\ disk' = SaveJsonFile(disk, "results", iteration - 1,
                            <<Len(all_search_results)>>)
    /\ written' = SaveJsonFile(written, "results", iteration - 1,
                               <<Len(all_search_results)>>)
    /\ stages' = Append(stages, "download")
    /\ opc' = "cleanup"
    /\ UNCHANGED <<orchFrame, browser, plan, iteration, all_search_results,
                   orch_error, planned, cleanup_log>>

\* download_content raises, or it returns and save_json_file raises
DownloadRaises ==
    /\ opc = "searching"
    /\ GetRemainingQueries(plan) = <<>>
    /\ all_search_results # <<>>
    /\ \E err \in {"CrawlError", "SaveError"},
          left \in {"as before", "truncated"} :
        /\ err = "CrawlError" => left = "as before"
        /\ disk' = SaveFails(disk, "results", iteration - 1, left)
        /\ opc' = OnError(err)
        /\ orch_error' = err
    /\ stages' = Append(stages, "download")
    /\ UNCHANGED <<orchFrame, browser, plan, iteration, all_search_results,
                   planned, written, cleanup_log>>

\* "if all_search_results:" is false: the crawl is skipped
NoDownload ==
    /\ opc = "searching"
    /\ GetRemainingQueries(plan) = <<>>
    /\ all_search_results = <<>>
    /\ opc' = "cleanup"
    /\ UNCHANGED <<orchFrame, browser, disk, plan, iteration,
                   all_search_results, orch_error, stages, planned, written,
                   cleanup_log>>

\* self._cleanup_old_files(iteration - 1): os.remove for every doomed file;
\* an OSError of os.remove is logged and the file stays
Cleanup ==
    /\ opc = "cleanup"
    /\ \E failing \in SUBSET Doomed(disk, iteration - 1) :
        LET removed == Doomed(disk, iteration - 1) \ failing IN
        /\ disk' = [f \in Files |-> IF f \in removed THEN Absent ELSE disk[f]]
        /\ cleanup_log' = [removed |-> removed, failed |-> failing]
    /\ stages' = Append(stages, "cleanup")
    /\ opc' = "indexing"
    /\ UNCHANGED <<orchFrame, browser, plan, iteration, all_search_results,
                   orch_error, planned, written>>

\* _load_downloaded_content: every file downloaded_content_*.json of the
\* results directory that json.load can read; a file it cannot read is
\* skipped
LoadDownloadedContent(d) ==
    {f \in Files : f[1] = "results" /\ d[f] \notin {Absent, Truncated}}

\* self.indexer.index_content() returns
Index ==
    /\ opc = "indexing"
    /\ stages' = Append(stages, "index")
    /\ opc' = "summarizing"
    /\ UNCHANGED <<orchFrame, browser, disk, plan, iteration,
                   all_search_results, orch_error, planned, written,
                   cleanup_log>>

IndexRaises ==
    /\ opc = "indexing"
    /\ stages' = Append(stages, "index")
    /\ opc' = OnError("IndexerError")
    /\ orch_error' = "IndexerError"
    /\ UNCHANGED <<orchFrame, browser, disk, plan, iteration,
                   all_search_results, planned, written, cleanup_log>>

\* self.summarizer.summarize()
Summarize ==
    /\ opc = "summarizing"
    /\ \E ok \in BOOLEAN :
        /\ orch_error' = SummarizeOutcome(ok)
        /\ opc' = IF SummarizeOutcome(ok) = "none"
                  THEN "done"
                  ELSE OnError(SummarizeOutcome(ok))
    /\ stages' = Append(stages, "summarize")
    /\ UNCHANGED <<orchFrame, browser, disk, plan, iteration,
                   all_search_results, planned, written, cleanup_log>>

\* the finally of run(): BrowserManager.get_instance().cleanup(); then run()
\* returns to main(), or its exception reaches main(), which exits with 1
Finally ==
    /\ opc \in {"done", "raised"}
    /\ browser' = "released"
    /\ opc' = IF opc = "done" THEN "exit0" ELSE "exit1"
    /\ UNCHANGED <<orchFrame, disk, plan, iteration, all_search_results,
                   orch_error, stages, planned, written, cleanup_log>>

OrchNext ==
    \/ Validate
    \/ ValidateRaises
    \/ Construct
    \/ BrowserInitRaises
    \/ ComponentInitRaises
    \/ ReadTopic
    \/ ReadTopicRaises
    \/ Plan
    \/ PlanRaises
    \/ SearchStep
    \/ SearchRaises
    \/ Download
    \/ DownloadRaises
    \/ NoDownload
    \/ Cleanup
    \/ Index
    \/ IndexRaises
    \/ Summarize
    \/ Finally

OrchSpec == OrchInit /\ [][OrchNext]_vars

\* every call returns or raises, and the process is not stopped from outside
FairOrchSpec == OrchSpec /\ WF_vars(OrchNext)

\* ------------------------------------------- Part 4: the LLM client
\* LLMClientManager.create_chat_completion of src/src/llm_client.py: the
\* cache test, then the retry loop around the API call.  Calls follow one
\* another; the clock of Part 2 runs on.
llmFrame == <<crawlVars, orchVars, cache, link_result>>

LLMInit == CrawlIdle /\ CacheIdle /\ OrchIdle /\ LLMIdle

\* the cache file of the prompt exists and is fresh: its text is returned
CallCached ==
    /\ lpc = "idle"
    /\ \E prompt \in Prompts :
        /\ CachedResponse(llm_cache, prompt, now) # None
        /\ llm_prompt' = prompt
        /\ llm_result' =
               CleanResponse(CachedResponse(llm_cache, prompt, now))
    /\ lpc' = "returned"
    /\ attempt' = 0
    /\ api_calls' = 0
    /\ delays' = <<>>
    /\ UNCHANGED <<llmFrame, now, llm_cache>>

\* no fresh cache file: "attempt = 0" and into the while loop
CallStarts ==
    /\ lpc = "idle"
    /\ \E prompt \in Prompts :
        /\ CachedResponse(llm_cache, prompt, now) = None
        /\ llm_prompt' = prompt
    /\ lpc' = "attempting"
    /\ attempt' = 0
    /\ llm_result' = NoResult
    /\ api_calls' = 0
    /\ delays' = <<>>
    /\ UNCHANGED <<llmFrame, now, llm_cache>>

\* the API call streams a response: it is cached and returned
ApiReturns ==
    /\ lpc = "attempting"
    /\ \E full_response \in Responses :
        LET raw_text == CleanResponse(full_response) IN
        /\ llm_cache' =
               [llm_cache EXCEPT ![llm_prompt] = CacheEntry(now, raw_text)]
        /\ llm_result' = raw_text
    /\ api_calls' = api_calls + 1
    /\ lpc' = "returned"
    /\ UNCHANGED <<llmFrame, now, llm_prompt, attempt, delays>>

\* "except APIError": attempt += 1, then sleep and loop, or raise
ApiError ==
    /\ lpc = "attempting"
    /\ api_calls' = api_calls + 1
    /\ attempt' = attempt + 1
    /\ IF RetryAgain(attempt + 1)
       THEN /\ delays' = Append(delays, RetryDelay)
            /\ UNCHANGED <<lpc, llm_result>>
       ELSE /\ lpc' = "raised"
            /\ llm_result' = APIError
            /\ UNCHANGED delays
    /\ UNCHANGED <<llmFrame, now, llm_prompt, llm_cache>>

\* "except Exception": any other error of the call is raised at once
OtherError ==
    /\ lpc = "attempting"
    /\ api_calls' = api_calls + 1
    /\ lpc' = "raised"
    /\ llm_result' = OtherException
    /\ UNCHANGED <<llmFrame, now, llm_prompt, attempt, llm_cache, delays>>

\* the caller has the response or the error; the client is free again
CallEnds ==
    /\ lpc \in {"returned", "raised"}
    /\ lpc' = "idle"
    /\ llm_prompt' = "none"
    /\ attempt' = 0
    /\ llm_result' = NoResult
    /\ api_calls' = 0
    /\ delays' = <<>>
    /\ UNCHANGED <<llmFrame, now, llm_cache>>

LLMNext ==
    \/ Tick
    \/ CallCached
    \/ CallStarts
    \/ ApiReturns
    \/ ApiError
    \/ OtherError
    \/ CallEnds

LLMSpec == LLMInit /\ [][LLMNext]_vars

\* ------------------------------------------------- a crawl of many seeds
\* download_content with its default budget, up to MaxWide seeds of
\* different URLs, an oracle that selects the first k candidates, and a web
\* where every fetch succeeds and no page names a URL.
MaxWide == 11

\* def download_content(self, download_links, max_relevant_links=500)
DefaultBudget == 500

WideUrls ==
    <<"u01", "u02", "u03", "u04", "u05", "u06", "u07", "u08", "u09", "u10",
      "u11", "u12">>

WideSeeds(n) == [i \in 1..n |-> DownloadLink(WideUrls[i], None, SnipA)]

\* the oracle's answer [0, 1, ..., k - 1]
FirstIndices(k) ==
    [kind |-> "list",
     entries |-> [i \in 1..k |-> [kind |-> "int", val |-> i - 1]]]

WideInit ==
    /\ download_links \in {WideSeeds(n) : n \in 1..MaxWide}
    /\ max_relevant_links = DefaultBudget
    /\ pc = "loop"
    /\ error = "none"
    /\ seen_urls = {}
    /\ all_available_links = download_links
    /\ downloaded_count = 0
    /\ results = <<>>
    /\ available_links = <<>>
    /\ response = NoResponse
    /\ relevant_indices = <<>>
    /\ url_to_links = <<>>
    /\ bi = 0
    /\ batch_results = <<>>
    /\ extracted_links = <<>>
    /\ successful_downloads = 0
    /\ fetch_log = <<>>
    /\ oracle_calls = 0
    /\ always_all = TRUE
    /\ RestIdle

\* OracleSelects for the answers FirstIndices(k)
WideOracleSelects ==
    /\ pc = "loop"
    /\ LoopContinues
    /\ LET avail == Available(all_available_links, seen_urls) IN
       \E k \in 1..Len(avail) :
        LET resp == FirstIndices(k)
            idx == ValidIndices(resp.entries, Len(avail))
        IN  /\ ParseError(resp) = "none"
            /\ idx # <<>>
            /\ response' = resp
            /\ available_links' = avail
            /\ relevant_indices' = idx
            /\ url_to_links' = DedupLinks(BatchLinks(avail, idx))
            /\ always_all' =
                (always_all
                    /\ {idx[j] : j \in 1..Len(idx)} = 0..(Len(avail) - 1))
    /\ bi' = 1
    /\ batch_results' = <<>>
    /\ extracted_links' = <<>>
    /\ successful_downloads' = 0
    /\ pc' = "batch"
    /\ oracle_calls' = oracle_calls + 1
    /\ UNCHANGED <<restVars, inputVars, error, loopVars, fetch_log>>

\* FetchSucceeds for a page that names no URL
WideFetchSucceeds ==
    /\ InBatch
    /\ LET link == url_to_links[bi]
           new_links == ExtractLinks(<<>>, link)
           added == AddUnique(new_links, extracted_links,
                              SeenAdd(seen_urls, link.url))
       IN  /\ ~Skipped(link)
           /\ extracted_links' = added[1]
           /\ seen_urls' = added[2]
           /\ batch_results' =
               Append(batch_results, SuccessResult(link, new_links))
           /\ fetch_log' = Append(fetch_log, [url |-> link.url, ok |-> TRUE])
    /\ successful_downloads' = successful_downloads + 1
    /\ bi' = bi + 1
    /\ UNCHANGED <<restVars, inputVars, pc, error, all_available_links,
                   downloaded_count, results, roundVars, url_to_links,
                   oracle_calls, always_all>>

WideNext ==
    \/ Return
    \/ WideOracleSelects
    \/ WideFetchSucceeds
    \/ BatchReturns

WideSpec == WideInit /\ [][WideNext]_vars

\* every oracle call and every fetch returns, and the loop is not preempted
FairWideSpec == WideSpec /\ WF_vars(WideNext)

\* ------------------------------------------- the links of one batch
\* The first loop of _download_and_extract_links over a batch of up to
\* MaxMerge links of one URL, one link at a time, and the extraction from
\* the page of the merged link.
MaxMerge == 3

\* the links of a batch: contexts and snippets absent (None), empty, or text;
\* the snippet "AB" contains the snippet "A"
MergePool ==
    {DownloadLink("a", p, sn) :
        p \in {None, SnipQ},
        sn \in {None, <<>>, SnipA, SnipB, SnipA \o SnipB}}

MergeInit ==
    /\ download_links \in BoundedSeq(MergePool, MaxMerge)
    /\ max_relevant_links = 1
    /\ pc = "dedup"
    /\ error = "none"
    /\ seen_urls = {}
    /\ all_available_links = <<>>
    /\ downloaded_count = 0
    /\ results = <<>>
    /\ available_links = <<>>
    /\ response = NoResponse
    /\ relevant_indices = <<>>
    /\ url_to_links = <<>>
    /\ bi = 1
    /\ batch_results = <<>>
    /\ extracted_links = <<>>
    /\ successful_downloads = 0
    /\ fetch_log = <<>>
    /\ oracle_calls = 0
    /\ always_all = TRUE
    /\ RestIdle

\* "for link in download_links": the next link enters url_to_links or is
\* merged into the link that holds its URL
DedupNext ==
    /\ pc = "dedup"
    /\ bi <= Len(download_links)
    /\ url_to_links' = DedupStep(url_to_links, download_links[bi])
    /\ bi' = bi + 1
    /\ UNCHANGED <<restVars, inputVars, pc, error, loopVars, roundVars,
                   batch_results, extracted_links, successful_downloads,
                   fetch_log, oracle_calls, always_all>>

\* the page of the merged link is fetched and names the URL "b":
\* _extract_urls_from_text(text, url, parent_link=link)
ExtractFromMerged ==
    /\ pc = "dedup"
    /\ bi > Len(download_links)
    /\ url_to_links # <<>>
    /\ extracted_links' = ExtractLinks(<<"b">>, url_to_links[1])
    /\ pc' = "extracted"
    /\ UNCHANGED <<restVars, inputVars, error, loopVars, roundVars,
                   url_to_links, bi, batch_results, successful_downloads,
                   fetch_log, oracle_calls, always_all>>

MergeNext ==
    \/ DedupNext
    \/ ExtractFromMerged

MergeSpec == MergeInit /\ [][MergeNext]_vars

\* ------------------------------------------------------------ the claims
Range(s) == {s[i] : i \in 1..Len(s)}

\* the CrawlResults produced so far in the run, the current batch's included
RunResults == results \o batch_results

Successes(rs) == {i \in 1..Len(rs) : rs[i].success}

SomeFetchSucceeded == \E k \in 1..Len(fetch_log) : fetch_log[k].ok

\* C1: in one download_content run every URL is fetched at most once and has
\* at most one CrawlResult (so a URL whose fetch failed is not tried again).
C1_EachUrlFetchedOnce ==
    /\ \A i, j \in 1..Len(fetch_log) :
        i # j => fetch_log[i].url # fetch_log[j].url
    /\ \A i, j \in 1..Len(RunResults) :
        i # j => RunResults[i].url # RunResults[j].url

\* the fetch of "a" failed for one of the two seed links for "a"; the run
\* returned with budget left and without trying "a" a second time
C1_Witness ==
    /\ pc = "returned"
    /\ downloaded_count < max_relevant_links
    /\ Cardinality({i \in 1..Len(download_links) : download_links[i].url = "a"}) = 2
    /\ \E i \in 1..Len(results) :
        /\ results[i].url = "a"
        /\ ~results[i].success
        /\ results[i].snippet = SnipA
    /\ Successes(results) # {}

\* C2: when download_content returns, the number of successful CrawlResults
\* is at most the budget.
C2_SuccessesWithinBudget ==
    pc = "returned" => Cardinality(Successes(results)) <= max_relevant_links

\* C3: links extracted from fetched pages are crawled: when the oracle selects
\* all candidates in every round and the run returns with budget left, every
\* URL extracted from a fetched page has a CrawlResult (seed [a], a naming b,
\* budget 2: results for a and b).
C3_ExtractedLinksAreCrawled ==
    (pc = "returned" /\ always_all /\ downloaded_count < max_relevant_links)
        => \A i \in 1..Len(results) :
            \A u \in Range(results[i].extracted_urls) :
                \E j \in 1..Len(results) : results[j].url = u

\* C4: a failed fetch is recorded as a CrawlResult with success = false and its
\* error, and one failed fetch does not make download_content raise: not even
\* in a batch of exactly one link after earlier batches succeeded.
C4_OneFailureNeverAborts ==
    /\ \A k \in 1..Len(fetch_log) :
        ~fetch_log[k].ok =>
            \E i \in 1..Len(RunResults) :
                /\ RunResults[i].url = fetch_log[k].url
                /\ ~RunResults[i].success
                /\ RunResults[i].error # "none"
    /\ (Successes(results) # {} /\ Len(batch_results) = 1) => pc # "raised"

\* C5: download_content fails with 'No successful downloads' if and only if it
\* processed at least one batch and no fetch of the whole run succeeded.
C5_ExhaustionIffNoSuccessInRun ==
    Terminated =>
        ((pc = "raised" /\ error = "NoSuccess")
            <=> (fetch_log # <<>> /\ ~SomeFetchSucceeded))

\* C6: a crawl seeded with 3 different links in which every fetch fails raises
\* 'No successful downloads' and hands no successful CrawlResult to the
\* caller, whichever non-empty batch the oracle selected first.
C6_AllFetchesFail ==
    (Len(download_links) = 3 /\ fetch_log # <<>> /\ ~SomeFetchSucceeded
        /\ pc # "batch")
        => (pc = "raised" /\ error = "NoSuccess" /\ Successes(results) = {})

\* two of three seeds with different URLs were selected and both fetches failed
C6_Witness ==
    /\ pc = "raised" /\ error = "NoSuccess"
    /\ Len(download_links) = 3
    /\ {download_links[i].url : i \in 1..3} = Urls
    /\ Len(fetch_log) = 2
    /\ ~SomeFetchSucceeded

\* why a run that returned left its loop
StopReason ==
    \/ downloaded_count >= max_relevant_links
    \/ Available(all_available_links, seen_urls) = <<>>
    \/ (response.kind = "list" /\ relevant_indices = <<>>)

\* C7: the crawl loop terminates (returns or raises) when every oracle call and
\* fetch returns; it returns only because the budget is reached, no unseen link
\* is available or the oracle gave no usable index; and every iteration that
\* does not end the run adds at least one CrawlResult.
C7_Terminates ==
    /\ <>Terminated
    /\ [](pc = "returned" => StopReason)
    /\ [][(pc = "batch" /\ pc' = "loop") => Len(results') > Len(results)]_vars

\* a run of two rounds that returned, with budget left, because no unseen
\* link was left
C7_Witness ==
    /\ pc = "returned"
    /\ oracle_calls = 2
    /\ Len(results) = 2
    /\ downloaded_count < max_relevant_links
    /\ Available(all_available_links, seen_urls) = <<>>

RECURSIVE JsonIntIndices(_, _)
\* the entries of a response that are JSON integers within [0, n), in order
JsonIntIndices(entries, n) ==
    IF entries = <<>> THEN <<>>
    ELSE (IF Head(entries).kind = "int" /\ 0 <= Head(entries).val
                /\ Head(entries).val < n
          THEN <<Head(entries).val>> ELSE <<>>)
            \o JsonIntIndices(Tail(entries), n)

\* C8: for a response that is a list, the batch is exactly the entries that
\* are integers within [0, len(available)), in response order; if none is
\* left the loop ends and download_content returns without raising.
C8_OnlyIntegersInRangeSelected ==
    response.kind = "list" =>
        LET claimed == JsonIntIndices(response.entries, Len(available_links))
        IN  /\ relevant_indices = claimed
            /\ claimed = <<>> => (pc = "returned" /\ error = "none")

C10_SeedLinksMerged ==
    (/\ Len(download_links) = 2
     /\ download_links[1].url = download_links[2].url
     /\ download_links[1].snippet = SnipA
     /\ download_links[2].snippet = SnipB)
        => \A i \in 1..Len(RunResults) :
            /\ RunResults[i].snippet = SnipA \o Sep \o SnipB
            /\ RunResults[i].parent_snippet =
                MergeField(download_links[1].parent_snippet,
                           download_links[2].parent_snippet)

\* the age of the cache file of url, where there is one
Age(url) == now - cache[url].mtime

HasEntry(c, url) == c[url] # NoEntry

\* C11: a readable entry is returned by _get_cached_content up to 23 hours
\* after its write and is absent for it from 25 hours on; the clock alone
\* changes nothing in the cache (staleness exists only at a read), no step
\* removes an entry, fresh or stale, a link served from the cache or failed
\* leaves the cache as it is, and an entry that is written is fresh at once.
C11_CacheFreshness ==
    /\ [](\A url \in CacheUrls :
            HasEntry(cache, url) /\ cache[url].content # Corrupt =>
                /\ Age(url) <= 23 =>
                       GetCachedContent(cache, url, now) = cache[url].content
                /\ Age(url) >= 25 =>
                       GetCachedContent(cache, url, now) = NoContent)
    /\ [][/\ now' # now => cache' = cache
          /\ \A url \in CacheUrls :
                 /\ HasEntry(cache, url) => HasEntry(cache', url)
                 /\ cache'[url] # cache[url] =>
                        /\ GetCachedContent(cache, url, now) = NoContent
                        /\ cache'[url].mtime = now'
                        /\ link_result'.url = url /\ link_result'.fetched
                        /\ cache'[url].content # Corrupt =>
                               GetCachedContent(cache', url, now') =
                                   link_result'.content
          /\ link_result'.source = "cache" /\ link_result' # link_result =>
                 /\ cache' = cache
                 /\ link_result'.content =
                        GetCachedContent(cache, link_result'.url, now)]_vars

\* "a" has just been served from the entry written for it 23 hours ago,
\* while the entry of "b", 25 hours old or more, is on disk and is a miss
C11_Witness ==
    /\ link_result.source = "cache" /\ link_result.url = "a"
    /\ HasEntry(cache, "a") /\ Age("a") = 23
    /\ link_result.content = cache["a"].content
    /\ HasEntry(cache, "b") /\ Age("b") >= 25
    /\ GetCachedContent(cache, "b", now) = NoContent

\* the errors that come from a collaborator or from the file system; the
\* TypeError of a call that does not bind is the orchestrator's own
EnvironmentErrors ==
    {"ValueError", "BrowserError", "ComponentError", "PlannerError",
     "SearchError", "SaveError", "CrawlError", "IndexerError",
     "SummarizerError"}

\* C12: a process in which the topic file is there and no collaborator call
\* fails gets through all stages of run() and run() returns normally.
C12_RunReachesDone ==
    <>(orch_error \in EnvironmentErrors \/ opc \in {"done", "exit0"})

Rank(stage) ==
    CASE stage = "plan" -> 1
      [] stage = "search" -> 2
      [] stage = "download" -> 3
      [] stage = "cleanup" -> 4
      [] stage = "index" -> 5
      [] stage = "summarize" -> 6

Started(stage) == \E i \in 1..Len(stages) : stages[i] = stage

SearchSteps == Cardinality({i \in 1..Len(stages) : stages[i] = "search"})

\* C13: the stages of a run start in the order plan, search, download,
\* cleanup, index, summarize; only search repeats, once per planned query at
\* most; a stage is left out only where the crawl has nothing to fetch; the
\* crawl and the cleanup start only when every planned query was searched;
\* the index starts only after the cleanup is through.
C13_StagesInOrder ==
    /\ stages # <<>> => stages[1] = "plan"
    /\ \A i \in 1..(Len(stages) - 1) :
        LET a == Rank(stages[i])
            b == Rank(stages[i + 1])
        IN  /\ a <= b
            /\ a = b => stages[i] = "search"
            /\ b > a + 1 =>
                   /\ stages[i] = "search" /\ stages[i + 1] = "cleanup"
                   /\ all_search_results = <<>>
    /\ SearchSteps <= planned
    /\ Started("download") \/ Started("cleanup") =>
           /\ SearchSteps = planned
           /\ plan = <<>>
    /\ Started("index") =>
           /\ Started("cleanup")
           /\ opc \notin {"searching", "cleanup"}

\* a run of two queries went through every stage
C13_Witness ==
    /\ stages = <<"plan", "search", "search", "download", "cleanup",
                  "index", "summarize">>
    /\ planned = 2

\* C14: once a stage has raised, no stage starts, no snapshot is written or
\* removed, the error is kept, and the one step left is the one that takes
\* the error out of run(): the process ends with it.
C14_FailFast ==
    /\ [](orch_error # "none" => opc \in {"raised", "exit1"})
    /\ [][orch_error # "none" =>
             /\ stages' = stages
             /\ disk' = disk
             /\ written' = written
             /\ orch_error' = orch_error
             /\ opc' = "exit1"]_vars
    /\ (opc = "raised" ~> opc = "exit1")

\* the second search raised: the plan and the first search are on disk,
\* nothing came after
C14_Witness ==
    /\ opc = "exit1"
    /\ orch_error = "SearchError"
    /\ stages = <<"plan", "search", "search">>
    /\ written[<<"plan", 2>>] # Absent
    /\ disk[<<"search", 2>>] = Absent
    /\ disk[<<"results", 1>>] = Absent

CleanupStep == opc = "cleanup" /\ opc' = "indexing"

Numbered(f) == f[2] # NotANumber

WrittenSnapshotsOnDisk ==
    \A f \in Files : written[f] # Absent => disk[f] = written[f]

\* C16: while the run has not failed, every snapshot a stage of it has
\* written is on disk with the content written; no later stage, the cleanup
\* included, removes or rewrites it.
C16_WrittenSnapshotsRemain == orch_error = "none" => WrittenSnapshotsOnDisk

\* C17: when the process has ended with an error, every snapshot written
\* before the failing stage is on disk with the content written.
C17_SnapshotsSurviveAbort == opc = "exit1" => WrittenSnapshotsOnDisk

\* C18: the process never ends with the browser live.
C18_BrowserReleasedAtExit == opc \in {"exit0", "exit1"} => browser # "live"

\* C19: an error of the cache never fails a link: a link whose cache read
\* raised was fetched from the network, and a link whose cache write raised
\* is recorded as a success.
C19_CacheErrorsNeverFailTheLink ==
    /\ link_result.error = "CacheReadError" => link_result.fetched
    /\ link_result.error = "CacheWriteError" => link_result.success
    /\ link_result.error \in {"CacheReadError", "CacheWriteError"} =>
           link_result.source = "network"

\* the retries of the call so far: the API calls after the first
Retries == IF api_calls = 0 THEN 0 ELSE api_calls - 1

\* C20: a call that meets APIErrors is retried up to 3 times, each retry
\* after the fixed delay, and the APIError is raised only when the 3rd retry
\* has failed too; a response ends the call at once; any other error is
\* raised by the API call it came from, with no retry after it.
C20_ThreeRetriesThenError ==
    /\ Retries <= 3
    /\ Len(delays) <= Retries + 1
    /\ \A i \in 1..Len(delays) : delays[i] = RetryDelay
    /\ lpc = "raised" /\ llm_result = APIError => Retries = 3
    /\ lpc = "returned" /\ api_calls > 0 =>
           /\ llm_result \in {CleanResponse(r) : r \in Responses}
           /\ Len(delays) = Retries
    /\ lpc = "raised" /\ llm_result = OtherException =>
           Len(delays) = Retries

\* the stored response of a prompt is less than 24 hours old
StoredFresh(prompt) ==
    /\ llm_cache[prompt] # NoCacheFile
    /\ now - llm_cache[prompt].mtime < 24

Selected == BatchLinks(available_links, relevant_indices)

\* the batch of the round in progress returns to download_content
RoundEnds == pc = "batch" /\ pc' = "loop"

\* the results appended to the run's list by the step
Appended == SubSeq(results', Len(results) + 1, Len(results'))

\* C22: when a round's batch returns, each Link the oracle selected in that
\* round has exactly one result for its URL among the results the round
\* appends.
C22_EverySelectedLinkHasAResult ==
    [][RoundEnds =>
          \A k \in 1..Len(Selected) :
              Cardinality({j \in 1..Len(Appended) :
                              Appended[j].url = Selected[k].url}) = 1]_vars

\* C23: the counter compared with the budget grows in each round by the
\* number of successful fetches of the round, so that between rounds it is
\* the number of successes of the run.
C23_CounterCountsSuccesses ==
    /\ [](pc = "loop" => downloaded_count = Cardinality(Successes(results)))
    /\ [][RoundEnds =>
             downloaded_count' =
                 downloaded_count + Cardinality(Successes(Appended))]_vars

\* C24: no batch holds more than 10 Links, and no more than 10 Links are
\* fetched in one round.
C24_BatchOfAtMostTen ==
    /\ Len(url_to_links) <= 10
    /\ Len(batch_results) <= 10

\* the candidate list of the round in progress repeats no URL and holds no
\* URL that was in the seen set when the list was built
CandidatesDistinctAndUnseen(candidates, seen) ==
    /\ \A i, j \in 1..Len(candidates) :
           i # j => candidates[i].url # candidates[j].url
    /\ \A i \in 1..Len(candidates) : candidates[i].url \notin seen

\* C25: the candidate list sent to the oracle in a round has no two entries
\* with the same URL and no URL of the seen set.
C25_CandidatesDistinctAndUnseen ==
    [][pc = "loop" /\ oracle_calls' = oracle_calls + 1 =>
          CandidatesDistinctAndUnseen(
              Available(all_available_links, seen_urls), seen_urls)]_vars

\* C26: the residual link set that download_content returns holds no URL
\* that has a result in the returned results, and it is empty when the run
\* ended with no link left to offer to the oracle.
C26_ResidualIsUnexplored ==
    pc = "returned" =>
        /\ \A i \in 1..Len(AllContent.extracted_links) :
           \A j \in 1..Len(AllContent.results) :
               AllContent.extracted_links[i].url # AllContent.results[j].url
        /\ Available(all_available_links, seen_urls) = <<>> =>
               AllContent.extracted_links = <<>>

UrlsOf(links) == {links[i].url : i \in 1..Len(links)}

\* C27: a seed Link that was a candidate of a round and was not selected in
\* it is a candidate of the next round, when the budget allows one; and a
\* run that returns with fewer results than the budget, without the oracle
\* having given an empty selection, has a result for every seed URL.
C27_SeedsStayCandidates ==
    /\ [][RoundEnds /\ BudgetLeft(downloaded_count', max_relevant_links) =>
             \A i \in 1..Len(download_links) :
                 LET u == download_links[i].url IN
                 u \in UrlsOf(available_links) /\ u \notin UrlsOf(Selected)
                     => u \in UrlsOf(Available(all_available_links',
                                               seen_urls'))]_vars
    /\ [](pc = "returned" /\ Len(results) < max_relevant_links
              /\ response = NoResponse
          => UrlsOf(download_links) \subseteq UrlsOf(results))

\* the cache holds an entry for the URL that is less than 24 hours old
FreshEntry(url) == cache[url] # NoEntry /\ now - cache[url].mtime < 24

\* C28: when a Link is processed, the network is used only if the cache
\* holds no fresh entry for its URL at that moment; a readable fresh entry
\* is the Link's content and the cache is left as it is; the content of a
\* successful fetch is in the cache, written at the time of the fetch, when
\* the Link's processing is over; a failed fetch leaves the cache as it was.
C28_CacheConsultedFirst ==
    [][now' = now =>
          LET r == link_result' IN
          /\ r.fetched => ~FreshEntry(r.url)
          /\ FreshEntry(r.url) /\ r.success =>
                 /\ r.source = "cache"
                 /\ r.content = cache[r.url].content
                 /\ cache' = cache
          /\ r.success /\ r.source = "network" =>
                 cache' = [cache EXCEPT
                              ![r.url] = CacheEntry(now, r.content)]
          /\ r.error = "FetchError" => cache' = cache]_vars

\* a Link fetched from the network at hour 24 or later, whose content is in
\* the cache with that hour as its time
C28_Witness ==
    /\ link_result.success
    /\ link_result.source = "network"
    /\ now >= 24
    /\ cache[link_result.url] = CacheEntry(now, link_result.content)
    /\ link_result.content = "v2"

\* the step calls the search collaborator
SearchCalled == stages' = Append(stages, "search")

\* C29: the k-th call of the search collaborator is for the k-th query of
\* the plan, and there are no more calls than queries; when the round goes
\* through, the plan is left with the queries after the k-th, in their
\* order, the search's links are appended to the seed list and its snapshot
\* names the query; the loop is over when all n queries were searched and
\* the plan is empty.
C29_PlanConsumedInOrder ==
    /\ [](opc = "searching" =>
              /\ plan = SubSeq(PlanOf(planned), iteration, planned)
              /\ SearchSteps = iteration - 1)
    /\ [][SearchCalled =>
              LET k == SearchSteps + 1
                  query == PlanOf(planned)[k]
              IN  /\ k <= planned
                  /\ query = Head(plan)
                  /\ orch_error' = "none" =>
                         /\ plan' = SubSeq(PlanOf(planned), k + 1, planned)
                         /\ iteration' = k + 1
                         /\ written'[<<"search", k>>].data[1] = query
                         /\ all_search_results' =
                                all_search_results
                                    \o [j \in 1..written'[<<"search", k>>].data[2]
                                           |-> <<query, j>>]
          ]_vars
    /\ [](Started("download") \/ Started("cleanup") =>
              /\ SearchSteps = planned
              /\ plan = <<>>
              /\ iteration = planned + 1)

\* both queries of a plan were searched, each search found a link, and the
\* crawl has started
C29_Witness ==
    /\ planned = 2
    /\ SearchSteps = 2
    /\ all_search_results = <<<<1, 1>>, <<2, 1>>>>
    /\ plan = <<>>
    /\ Started("download")
    /\ orch_error = "none"

\* the numbers of the snapshots the run has written in a directory
WrittenNumbers(dir) ==
    {f[2] : f \in {g \in Files : g[1] = dir /\ written[g] # Absent}}

\* the queries that remain of the run's plan after k searches
RemainingAfter(k) == SubSeq(PlanOf(planned), k + 1, planned)

\* C30: the plan snapshots the run has written are numbered 1, 2, ... and
\* snapshot i holds the queries remaining after i - 1 searches, in the
\* run's record and in every file of the run on disk; the search snapshots
\* are numbered 1..k after k searches, and plan snapshot k + 1 is written
\* only after search snapshot k; every write is to a number that is new for
\* its directory and greater than the numbers written there before.
C30_SnapshotNumbering ==
    /\ [](/\ \A i \in WrittenNumbers("plan") :
                 /\ 1 <= i /\ i <= planned + 1
                 /\ written[<<"plan", i>>].data = RemainingAfter(i - 1)
                 /\ i > 1 => (i - 1) \in WrittenNumbers("search")
          /\ \A f \in Files :
                 f[1] = "plan" /\ disk[f].run = "cur" =>
                     disk[f].data = RemainingAfter(f[2] - 1)
          /\ \E m \in 0..(planned + 1) : WrittenNumbers("plan") = 1..m
          /\ \E m \in 0..planned : WrittenNumbers("search") = 1..m
          /\ opc = "searching" =>
                 /\ WrittenNumbers("plan") = 1..iteration
                 /\ WrittenNumbers("search") = 1..(iteration - 1))
    /\ [][\A f \in Files :
              written'[f] # written[f] =>
                  /\ written[f] = Absent
                  /\ \A n \in WrittenNumbers(f[1]) : n < f[2]]_vars

\* two searches are through: plan snapshots 1, 2, 3 and search snapshots 1, 2
C30_Witness ==
    /\ planned = 2
    /\ written[<<"plan", 1>>] = Snapshot(<<1, 2>>)
    /\ written[<<"plan", 2>>] = Snapshot(<<2>>)
    /\ written[<<"plan", 3>>] = Snapshot(<<>>)
    /\ WrittenNumbers("search") = {1, 2}
    /\ orch_error = "none"

\* the crawls the run has started
CrawlsStarted == Cardinality({i \in 1..Len(stages) : stages[i] = "download"})

\* C31: the crawl is started at most once in a run and only when every
\* planned query was searched; its snapshot is numbered with the number that
\* the cleanup is given, holds the crawl of the whole seed list, and no
\* snapshot written by the run has a higher number.
C31_CrawlSnapshotIsFinal ==
    /\ CrawlsStarted <= 1
    /\ Started("download") => SearchSteps = planned /\ plan = <<>>
    /\ \A n \in WrittenNumbers("results") :
           /\ n = iteration - 1
           /\ WrittenNumbers("results") = {n}
           /\ written[<<"results", n>>].data = <<Len(all_search_results)>>
           /\ \A f \in Files : written[f] # Absent => f[2] <= n

\* C32: when the index is about to be built, every crawl snapshot in the
\* results directory was written by the current run, and so was every
\* snapshot that the indexer loads.
C32_IndexerSeesOnlyThisRun ==
    opc = "indexing" =>
        /\ \A f \in Files :
               f[1] = "results" /\ disk[f] # Absent => disk[f].run = "cur"
        /\ \A f \in LoadDownloadedContent(disk) : disk[f] = written[f]

\* the Links the crawl holds: the pool and those extracted in the batch
KnownLinks == all_available_links \o extracted_links

\* a page has been fetched in the step and its links extracted
Extracted ==
    /\ Len(batch_results') = Len(batch_results) + 1
    /\ batch_results'[Len(batch_results')].success

LinksOfUrl(links, u) == {i \in 1..Len(links) : links[i].url = u}

\* C33: when a fetched page names a URL that a known Link holds and that
\* has not been processed, the extraction adds no second Link for the URL,
\* and each Link that holds it
\* is merged with the extracted Link: its parent context and snippet are
\* joined with those of the extracted Link.
C33_MergedAtExtraction ==
    [][Extracted =>
          LET parent == url_to_links[bi]
              named == batch_results'[Len(batch_results')].extracted_urls
              known == KnownLinks
              after == all_available_links' \o extracted_links'
          IN  \A k \in 1..Len(named) :
                  /\ HasUrl(known, named[k])
                  /\ named[k] \notin UrlsOf(results \o batch_results')
                  =>
                      /\ LinksOfUrl(after, named[k])
                             = LinksOfUrl(known, named[k])
                      /\ \A i \in LinksOfUrl(known, named[k]) :
                             after[i] =
                                 MergeLinks(known[i],
                                            DownloadLink(named[k],
                                                         ParentContext(parent),
                                                         SnipX))]_vars

\* a field as text: an absent field is the empty text
TextOf(field) == IF field = None THEN <<>> ELSE field

RECURSIVE FirstOccurrences(_, _)
\* the non-empty texts of a list, each at its first occurrence only
FirstOccurrences(fields, earlier) ==
    IF fields = <<>> THEN <<>>
    ELSE LET t == TextOf(Head(fields)) IN
         IF t = <<>> \/ t \in earlier
         THEN FirstOccurrences(Tail(fields), earlier)
         ELSE <<t>> \o FirstOccurrences(Tail(fields), earlier \cup {t})

RECURSIVE Joined(_)
\* the texts of a list with " | " between them
Joined(texts) ==
    IF texts = <<>> THEN <<>>
    ELSE IF Len(texts) = 1 THEN texts[1]
    ELSE texts[1] \o <<" ", "|", " ">> \o Joined(Tail(texts))

\* no text of the list is part of a different text of the list
NonOverlapping(fields) ==
    \A i, j \in 1..Len(fields) :
        LET x == TextOf(fields[i])
            y == TextOf(fields[j])
        IN  x # <<>> /\ x # y =>
                ~(\E k \in 0..(Len(y) - Len(x)) :
                      SubSeq(y, k + 1, k + Len(x)) = x)

\* text x is part of text y
PartOf(x, y) ==
    \E k \in 0..(Len(y) - Len(x)) : SubSeq(y, k + 1, k + Len(x)) = x

\* a link of the batch is merged into the link that holds its URL
MergeStep == pc = "dedup" /\ bi' = bi + 1 /\ url_to_links # <<>>

\* C34: after any number of same-URL links the batch holds one link for the
\* URL; where no snippet (or parent context) is part of another, the merged
\* field is the distinct non-empty ones in the order of their first
\* occurrence, joined by " | ", an absent field being the empty text; a
\* link whose field is empty or is part of the merged field leaves the field
\* as it is, and a link merged with itself leaves the link as it is.
C34_MergeIdempotent ==
    /\ [](pc = "dedup" /\ bi > 1 =>
              LET done == SubSeq(download_links, 1, bi - 1)
                  snippets == [i \in 1..Len(done) |-> done[i].snippet]
                  parents == [i \in 1..Len(done) |-> done[i].parent_snippet]
              IN  /\ Len(url_to_links) = 1
                  /\ NonOverlapping(snippets) =>
                         TextOf(url_to_links[1].snippet)
                             = Joined(FirstOccurrences(snippets, {}))
                  /\ NonOverlapping(parents) =>
                         TextOf(url_to_links[1].parent_snippet)
                             = Joined(FirstOccurrences(parents, {})))
    /\ [][MergeStep =>
              LET old == url_to_links[1]
                  new == download_links[bi]
                  merged == url_to_links'[1]
              IN  /\ PartOf(TextOf(new.snippet), TextOf(old.snippet)) =>
                         TextOf(merged.snippet) = TextOf(old.snippet)
                  /\ PartOf(TextOf(new.parent_snippet),
                            TextOf(old.parent_snippet)) =>
                         TextOf(merged.parent_snippet)
                             = TextOf(old.parent_snippet)
                  /\ new = old =>
                         /\ merged.url = old.url
                         /\ TextOf(merged.snippet) = TextOf(old.snippet)
                         /\ TextOf(merged.parent_snippet)
                                = TextOf(old.parent_snippet)]_vars

\* three links of one URL with the snippets A, B, A and the contexts Q,
\* none, Q are merged into one with the snippet "A | B" and the context Q
C34_Witness ==
    /\ pc = "dedup"
    /\ bi = 4
    /\ [i \in 1..3 |-> download_links[i].snippet] = <<SnipA, SnipB, SnipA>>
    /\ [i \in 1..3 |-> download_links[i].parent_snippet]
           = <<SnipQ, None, SnipQ>>
    /\ url_to_links =
           <<DownloadLink("a", SnipQ, <<"A", " ", "|", " ", "B">>)>>

\* C35: a Link extracted from a page has as parent context its parent
\* Link's parent context and snippet joined by " | ": both when both are
\* present, the one that is present alone, without a separator, when only
\* one is, and the empty context when neither is.
C35_ContextChain ==
    pc = "extracted" =>
        LET parent == url_to_links[1]
            ctx == TextOf(parent.parent_snippet)
            snip == TextOf(parent.snippet)
        IN  \A i \in 1..Len(extracted_links) :
                extracted_links[i].parent_snippet =
                    IF ctx # <<>> /\ snip # <<>>
                    THEN ctx \o <<" ", "|", " ">> \o snip
                    ELSE IF ctx # <<>> THEN ctx
                    ELSE snip

\* the known links whose URL is not in the seen set
Unseen == {i \in 1..Len(all_available_links) :
              all_available_links[i].url \notin seen_urls}

\* C36: with the default budget, fetches that succeed and pages that name
\* no link, a crawl of 1 seed returns with exactly 1 result after exactly 1
\* oracle call and 1 fetch; in every such crawl the oracle is called only
\* while an unseen link is known, and the crawl returns when none is.
C36_OneSeedOneOracleCall ==
    /\ (Len(download_links) = 1) ~>
           (/\ pc = "returned"
            /\ Len(results) = 1
            /\ results[1].success
            /\ oracle_calls = 1
            /\ Len(fetch_log) = 1)
    /\ [](Len(download_links) = 1 => oracle_calls <= 1 /\ Len(fetch_log) <= 1)
    /\ [][oracle_calls' # oracle_calls => Unseen # {}]_vars
    /\ [](pc = "returned" => Unseen = {})
    /\ <>(pc = "returned")

\* the crawl of 1 seed has returned
C36_Witness ==
    /\ pc = "returned"
    /\ Len(download_links) = 1
    /\ max_relevant_links = 500
    /\ oracle_calls = 1
    /\ Len(results) = 1
    /\ results[1].extracted_urls = <<>>

\* C37: when the topic file is missing or unreadable, run() raises at once:
\* the error leaves run() with no stage started, no plan, no search result,
\* no snapshot written and no cleanup done, and no file of the working
\* directory is written or removed while no stage has started.
C37_TopicErrorBeforeAnyStage ==
    /\ [](orch_error = "ValueError" =>
              /\ opc \in {"raised", "exit1"}
              /\ stages = <<>>
              /\ plan = <<>>
              /\ planned = 0
              /\ all_search_results = <<>>
              /\ written = NoFiles
              /\ cleanup_log = NoCleanup)
    /\ [][stages' = <<>> => disk' = disk]_vars
    /\ [][opc = "topic" /\ orch_error' = "ValueError" =>
              opc' = "raised" /\ disk' = disk]_vars

\* run() has raised for the topic file and the process has ended, with the
\* files of an earlier run still in the working directory
C37_Witness ==
    /\ opc = "exit1"
    /\ orch_error = "ValueError"
    /\ browser = "released"
    /\ disk[<<"results", 1>>] = Stale
    /\ disk[<<"plan", MaxQueries + 2>>] = Stale

====
